---- MODULE Spec2Model ----
(***************************************************************************)
(* A model of runmark/pytemplate, src/template.py: the template engine     *)
(* (TemplateEngine.register / create), the template (Template.render with  *)
(* its cached compilation) and the pure functions under them (tokenize,    *)
(* create_token, create_control_token, extract_last_filter, parse_expr,    *)
(* the tokens' generate_code).                                             *)
(*                                                                         *)
(* A Python str is a sequence of one-character strings.  A Python value is *)
(* a record [t, s, l]: a str (s), a list of str (l), a function object     *)
(* (named by s) or a module.  An outcome of a call is a record with a kind *)
(* ("ok" or the name of the exception class raised).                       *)
(***************************************************************************)
EXTENDS Integers, Sequences, FiniteSets, TLC

VARIABLES filters, templates, compiles, last, callerCtx, parsed

vars == <<filters, templates, compiles, last, callerCtx, parsed>>

----------------------------------------------------------------------------
(* Bounds of the model. *)

\* Longest template text (and expression body) drawn from the alphabets.
MaxTextLen == 4

\* How often one Template may run its compilation pipeline.
MaxCompiles == 2

----------------------------------------------------------------------------
(* Python str helpers. *)

IsSpace(c) == c \in {" ", "\n", "\t"}

\* [A-Za-z0-9_] of the letters the model spells.
IsWord(c) == c \in {"a", "b", "c", "d", "e", "f", "g", "h", "i", "j", "k", "l",
                    "m", "n", "o", "p", "q", "r", "s", "t", "u", "v", "w", "x",
                    "y", "z", "_"}

Min(S) == CHOOSE m \in S : \A k \in S : m <= k

Max(S) == CHOOSE m \in S : \A k \in S : m >= k

\* str.strip()
Strip(s) ==
    LET keep == {i \in 1..Len(s) : ~IsSpace(s[i])}
    IN  IF keep = {} THEN <<>> ELSE SubSeq(s, Min(keep), Max(keep))

StartsWith(s, p) == Len(s) >= Len(p) /\ SubSeq(s, 1, Len(p)) = p

EndsWith(s, p) == Len(s) >= Len(p) /\ SubSeq(s, Len(s) - Len(p) + 1, Len(s)) = p

\* text[2:-2]
Inner(s) == SubSeq(s, 3, Len(s) - 2)

RECURSIVE Concat(_)
\* "".join(list)
Concat(l) == IF l = <<>> THEN <<>> ELSE Head(l) \o Concat(Tail(l))

----------------------------------------------------------------------------
(* Python values and outcomes. *)

StrV(s) == [t |-> "str", s |-> s, l |-> <<>>]

ListV(l) == [t |-> "list", s |-> <<>>, l |-> l]

FnV(name) == [t |-> "fn", s |-> name, l |-> <<>>]

ModuleV == [t |-> "module", s |-> <<>>, l |-> <<>>]

Ok(v) == [kind |-> "ok", v |-> v]

Raise(kind) == [kind |-> kind, v |-> StrV(<<>>)]

RECURSIVE ReprList(_)
ReprList(l) ==
    IF l = <<>> THEN <<>>
    ELSE <<"'">> \o Head(l) \o <<"'">>
         \o (IF Len(l) > 1 THEN <<",", " ">> ELSE <<>>) \o ReprList(Tail(l))

\* str(value)
StrOf(v) ==
    CASE v.t = "str"  -> v.s
      [] v.t = "list" -> <<"[">> \o ReprList(v.l) \o <<"]">>
      [] v.t = "fn"   -> <<"<">> \o v.s \o <<">">>
      [] OTHER        -> <<"<", "m", ">">>

----------------------------------------------------------------------------
(* tokenize: re.split(r"({{.*?}}|{#.*?#}|{%.*?%})", text) and create_token. *)

\* The second character of the three opening markers "{{", "{#", "{%".
MarkerChars == {"{", "#", "%"}

\* The character that, followed by "}", closes the marker opened by "{" c.
CloseChar(c) == IF c = "{" THEN "}" ELSE c

\* Whether "{" c opens a marker at position i of text.
OpensAt(text, i) ==
    /\ i + 1 <= Len(text)
    /\ text[i] = "{"
    /\ text[i + 1] \in MarkerChars

\* The last position of the regex's match starting at i, 0 when it has none:
\* the opening marker, the shortest run of non-newline characters, the
\* closing marker.
MatchEnd(text, i) ==
    IF ~OpensAt(text, i) THEN 0
    ELSE LET c  == CloseChar(text[i + 1])
             js == {j \in (i + 2)..(Len(text) - 1) :
                        text[j] = c /\ text[j + 1] = "}"}
         IN  IF js = {} THEN 0
             ELSE IF \E k \in (i + 2)..(Min(js) - 1) : text[k] = "\n" THEN 0
             ELSE Min(js) + 1

RECURSIVE SplitFrom(_, _, _), SplitAt(_, _, _, _)
\* re.split with one capturing group: the literal pieces and the matches,
\* alternating, from the piece that starts at `start`, scanning at i.
SplitFrom(text, start, i) ==
    IF i > Len(text) THEN <<SubSeq(text, start, Len(text))>>
    ELSE SplitAt(text, start, i, MatchEnd(text, i))

\* One step of the scan: e is where the match at i ends, 0 when none.
SplitAt(text, start, i, e) ==
    IF e = 0 THEN SplitFrom(text, start, i + 1)
    ELSE <<SubSeq(text, start, i - 1), SubSeq(text, i, e)>>
         \o SplitFrom(text, e + 1, e + 1)

Split(text) == SplitFrom(text, 1, 1)

\* A token: its class and what parse() stored in it.
Token(type, content, fs) == [type |-> type, content |-> content, filters |-> fs]

\* re.search(r'(\|\s*[A-Za-z0-9_]+\s*)$', text): where the match starts,
\* 0 when there is none.
FilterSuffixStart(text) ==
    LET tailOk(i) ==
            LET name == Strip(SubSeq(text, i + 1, Len(text)))
            IN  name # <<>> /\ \A k \in 1..Len(name) : IsWord(name[k])
        ms == {i \in 1..Len(text) : text[i] = "|" /\ tailOk(i)}
    IN  IF ms = {} THEN 0 ELSE Min(ms)

\* The two returns of extract_last_filter, for the match starting at m.
SplitAtFilter(text, m) ==
    IF m = 0 THEN <<text, <<>>>>
    ELSE <<Strip(SubSeq(text, 1, m - 1)), Strip(SubSeq(text, m + 1, Len(text)))>>

\* extract_last_filter: <<var_name, filter_>>, filter_ empty when none.
extract_last_filter(text) == SplitAtFilter(text, FilterSuffixStart(text))

RECURSIVE ParseLoop(_, _), ParseStep(_, _)
\* The while loop of parse_expr.
ParseLoop(var_name, fs) == ParseStep(extract_last_filter(var_name), fs)

\* Its body, r being what extract_last_filter returned.
ParseStep(r, fs) ==
    IF r[2] # <<>> THEN ParseLoop(r[1], <<r[2]>> \o fs)
    ELSE <<r[1], fs>>

parse_expr(text) == ParseLoop(text, <<>>)

\* The keyword of a control body: re.match(r"^(\w+)", content).
Keyword(content) ==
    LET stop == {i \in 1..Len(content) : ~IsWord(content[i])}
    IN  IF stop = {} THEN content ELSE SubSeq(content, 1, Min(stop) - 1)

KwFor == <<"f", "o", "r">>

KwEndFor == <<"e", "n", "d", "f", "o", "r">>

\* The token class of a keyword, or the SyntaxError raised for it.
ControlClass(keyword) ==
    IF keyword = <<>> THEN Raise("SyntaxError")
    ELSE IF keyword = KwFor THEN Ok(StrV(<<"For">>))
    ELSE IF keyword = KwEndFor THEN Ok(StrV(<<"EndFor">>))
    ELSE Raise("SyntaxError")

\* create_control_token: the token class, or the SyntaxError it raises.
create_control_token(content) == ControlClass(Keyword(Strip(content)))

\* Expr.parse: the token keeps what parse_expr returned.
ExprToken(p) == [kind |-> "ok", tok |-> Token("Expr", p[1], p[2])]

\* token.parse(content) on the token create_control_token returned in c.
ControlToken(c) ==
    IF c.kind # "ok" THEN [kind |-> c.kind, tok |-> Token("None", <<>>, <<>>)]
    ELSE [kind |-> "NotImplementedError", tok |-> Token(c.v.s[1], <<>>, <<>>)]

\* create_token: [kind, tok].  For and EndFor define no parse(), so
\* token.parse(content) on them is Token.parse, which raises
\* NotImplementedError.
create_token(text) ==
    IF StartsWith(text, <<"{", "{">>) /\ EndsWith(text, <<"}", "}">>) THEN
        ExprToken(parse_expr(Strip(Inner(text))))
    ELSE IF StartsWith(text, <<"{", "#">>) /\ EndsWith(text, <<"#", "}">>) THEN
        [kind |-> "ok", tok |-> Token("Comment", Strip(Inner(text)), <<>>)]
    ELSE IF StartsWith(text, <<"{", "%">>) /\ EndsWith(text, <<"%", "}">>) THEN
        ControlToken(create_control_token(Strip(Inner(text))))
    ELSE [kind |-> "ok", tok |-> Token("Text", text, <<>>)]

\* A faulty filter: `if s`, which drops only the empty segments.
KeepSegmentNonEmpty(s) == s # <<>>

\* The `if s.strip()` of tokenize's comprehension.
KeepSegment(s) == Strip(s) # <<>>

RECURSIVE TokenizeSegs(_), TokenizeNext(_, _)
\* [create_token(s) for s in segments if s.strip()]: the first segment
\* whose token raises ends it.
TokenizeSegs(segs) ==
    IF segs = <<>> THEN [kind |-> "ok", tokens |-> <<>>]
    ELSE IF ~KeepSegment(Head(segs)) THEN TokenizeSegs(Tail(segs))
    ELSE TokenizeNext(create_token(Head(segs)), Tail(segs))

\* The list with token tok before the tokens of r.
TokenizeCons(tok, r) ==
    IF r.kind # "ok" THEN r
    ELSE [kind |-> "ok", tokens |-> <<tok>> \o r.tokens]

\* The comprehension after create_token returned c for one segment.
TokenizeNext(c, rest) ==
    IF c.kind # "ok" THEN [kind |-> c.kind, tokens |-> <<>>]
    ELSE TokenizeCons(c.tok, TokenizeSegs(rest))

tokenize(text) == TokenizeSegs(Split(text))

----------------------------------------------------------------------------
(* generate_code and compile.  A line of the generated source is a record: *)
(* `_output_.append(<repr of content>)`, `_output_.append(str(<expr>))`    *)
(* with <expr> kept as source text, or the empty line of a Comment.        *)

OUTPUT_VAR == <<"_", "o", "u", "t", "p", "u", "t", "_">>

Line(op, arg) == [op |-> op, arg |-> arg]

Reverse(s) == [i \in 1..Len(s) |-> s[Len(s) + 1 - i]]

RECURSIVE WrapCalls(_, _)
\* for filter in fs: result = f"{filter}({result})"
WrapCalls(result, fs) ==
    IF fs = <<>> THEN result
    ELSE WrapCalls(Head(fs) \o <<"(">> \o result \o <<")">>, Tail(fs))

\* The order in which Expr.generate_code walks the filters.
FilterWalk(fs) == Reverse(fs)

\* Text.generate_code, Expr.generate_code, Comment.generate_code.
generate_code(tok) ==
    CASE tok.type = "Text"    -> Line("append_lit", tok.content)
      [] tok.type = "Expr"    ->
            Line("append_str", WrapCalls(tok.content, FilterWalk(tok.filters)))
      [] OTHER                -> Line("blank", <<>>)

\* Python keywords the model's letters can spell: no identifiers.
Keywords == {<<"f", "o", "r">>, <<"i", "n">>, <<"i", "f">>, <<"o", "r">>,
             <<"i", "s">>, <<"a", "s">>, <<"n", "o", "t">>, <<"a", "n", "d">>,
             <<"d", "e", "f">>, <<"d", "e", "l">>, <<"t", "r", "y">>}

IsIdent(s) ==
    /\ s # <<>>
    /\ \A k \in 1..Len(s) : IsWord(s[k])
    /\ s \notin Keywords

\* Where the call's "(" is, 0 when src is no call  name(...).
CallParen(src) ==
    LET ps == {i \in 1..Len(src) : src[i] = "("}
    IN  IF ps = {} \/ src[Len(src)] # ")" THEN 0 ELSE Min(ps)

RECURSIVE IsExprSyntax(_), IsExprAt(_, _), IsArgSyntax(_)
\* Python's expression grammar, of the expressions generate_code builds from
\* names: a name, or a call of a name on nothing or on such an expression.
\* Any other text is taken for a syntax error.
IsExprSyntax(src) == IsExprAt(src, CallParen(src))

IsExprAt(src, p) ==
    IF p = 0 THEN IsIdent(src)
    ELSE /\ IsIdent(SubSeq(src, 1, p - 1))
         /\ IsArgSyntax(SubSeq(src, p + 1, Len(src) - 1))

IsArgSyntax(inner) == inner = <<>> \/ IsExprSyntax(inner)

LineSyntaxOk(line) ==
    line.op # "append_str" \/ line.arg = <<>> \/ IsExprSyntax(line.arg)

NoCode == [isNone |-> TRUE, prog |-> <<>>]

CodeObj(prog) == [isNone |-> FALSE, prog |-> prog]

\* compile(source_code, '', 'exec')
CompileLines(prog) ==
    IF \A i \in 1..Len(prog) : LineSyntaxOk(prog[i])
    THEN [kind |-> "ok", code |-> CodeObj(prog)]
    ELSE [kind |-> "SyntaxError", code |-> NoCode]

\* code_lines = [x.generate_code() for x in tokens], then compile.
CompileTokens(tk) ==
    IF tk.kind # "ok" THEN [kind |-> tk.kind, code |-> NoCode]
    ELSE CompileLines([i \in 1..Len(tk.tokens) |-> generate_code(tk.tokens[i])])

\* tokenize, generate_code of every token, compile: [kind, code].
CompilePipeline(text) == CompileTokens(tokenize(text))

----------------------------------------------------------------------------
(* exec(code, globals, locals). *)

\* A dict is a function from keys (str) to values.
EmptyDict == [k \in {} |-> StrV(<<>>)]

SetItem(d, k, v) == [x \in DOMAIN d \cup {k} |-> IF x = k THEN v ELSE d[x]]

\* The filter functions the callers register, and the builtins the model
\* spells.
FnStrip == <<"s", "t", "r", "i", "p">>

FnFirst == <<"f", "i", "r", "s", "t">>

FnStr == <<"s", "t", "r">>

Builtins == [k \in {FnStr} |-> FnV(<<"b", "u", "i", "l", "t", "i", "n", "_">> \o k)]

\* LOAD_NAME: locals, then globals, then builtins.
Lookup(name, globals, locals) ==
    IF name \in DOMAIN locals THEN Ok(locals[name])
    ELSE IF name \in DOMAIN globals THEN Ok(globals[name])
    ELSE IF name \in DOMAIN Builtins THEN Ok(Builtins[name])
    ELSE Raise("NameError")

\* f(x) for a value f.
Apply(f, x) ==
    IF f.t # "fn" THEN Raise("TypeError")
    ELSE CASE f.s = FnStrip ->     \* lambda x: x.strip()
                IF x.t = "str" THEN Ok(StrV(Strip(x.s))) ELSE Raise("AttributeError")
           [] f.s = FnFirst ->     \* lambda x: x[0]
                IF x.t = "str"
                THEN IF x.s = <<>> THEN Raise("IndexError") ELSE Ok(StrV(<<x.s[1]>>))
                ELSE IF x.t = "list"
                THEN IF x.l = <<>> THEN Raise("IndexError") ELSE Ok(StrV(x.l[1]))
                ELSE Raise("TypeError")
           [] OTHER -> Ok(StrV(StrOf(x)))     \* builtin str

\* f() for a value f.
Apply0(f) ==
    IF f.t = "fn" /\ f.s \notin {FnStrip, FnFirst} THEN Ok(StrV(<<>>))
    ELSE Raise("TypeError")

\* f(a) for a callee value f and the outcome a of evaluating its argument.
ApplyTo(f, a) == IF a.kind # "ok" THEN a ELSE Apply(f, a.v)

RECURSIVE Eval(_, _, _), EvalAt(_, _, _, _), EvalCall(_, _, _, _)
\* The value of an expression: the callee is loaded before its argument.
Eval(src, globals, locals) == EvalAt(src, CallParen(src), globals, locals)

EvalAt(src, p, globals, locals) ==
    IF p = 0 THEN Lookup(src, globals, locals)
    ELSE EvalCall(Lookup(SubSeq(src, 1, p - 1), globals, locals),
                  SubSeq(src, p + 1, Len(src) - 1), globals, locals)

EvalCall(f, inner, globals, locals) ==
    IF f.kind # "ok" THEN f
    ELSE IF inner = <<>> THEN Apply0(f.v)
    ELSE ApplyTo(f.v, Eval(inner, globals, locals))

\* _output_.append(s): the list object bound to _output_ in locals grows.
ListAppend(locals, s) ==
    [locals EXCEPT ![OUTPUT_VAR] = ListV(Append(locals[OUTPUT_VAR].l, s))]

RECURSIVE Exec(_, _, _), ExecLine(_, _, _, _), ExecAppend(_, _, _, _)
\* The lines of prog in order: [kind, locals], ended by the first line that
\* raises.
Exec(prog, globals, locals) ==
    IF prog = <<>> THEN [kind |-> "ok", locals |-> locals]
    ELSE ExecLine(Head(prog), Tail(prog), globals, locals)

ExecLine(line, rest, globals, locals) ==
    CASE line.op = "append_lit" ->
            Exec(rest, globals, ListAppend(locals, line.arg))
      [] line.op = "append_str" ->
            ExecAppend(IF line.arg = <<>> THEN Ok(StrV(<<>>))     \* str()
                       ELSE Eval(line.arg, globals, locals),
                       rest, globals, locals)
      [] OTHER -> Exec(rest, globals, locals)

\* _output_.append(str(r)) for the outcome r of the line's expression.
ExecAppend(r, rest, globals, locals) ==
    IF r.kind # "ok" THEN [kind |-> r.kind, locals |-> locals]
    ELSE Exec(rest, globals, ListAppend(locals, StrOf(r.v)))

----------------------------------------------------------------------------
(* Template and TemplateEngine. *)

BUILTINS_KEY == <<"_", "_", "b", "u", "i", "l", "t", "i", "n", "s", "_", "_">>

\* The two Template objects a caller holds.
TemplateIds == {"t1", "t2"}

NoTemplate ==
    [created |-> FALSE, text |-> <<>>, code |-> NoCode, global_vars |-> EmptyDict]

\* Template.__init__: _global_vars is a new dict, updated from filters.
NewTemplate(text, fs) ==
    [created |-> TRUE, text |-> text, code |-> NoCode,
     global_vars |-> [k \in DOMAIN fs |-> fs[k]]]

\* A faulty guard: _generate_code without its `if not self._code`.
NeedsCompileAlways(code) == TRUE

\* `if not self._code` of _generate_code.
NeedsCompile(code) == code.isNone

\* self._code after the pipeline ended as r.
Compiled(r) == [kind |-> r.kind, code |-> r.code, ran |-> TRUE]

\* Template._generate_code: [kind, code, ran], ran when the pipeline ran.
GenerateCode(tpl) ==
    IF NeedsCompile(tpl.code) THEN Compiled(CompilePipeline(tpl.text))
    ELSE [kind |-> "ok", code |-> tpl.code, ran |-> FALSE]

\* A context argument of render: None, or the caller's dict.
CtxArg(none, d) == [none |-> none, d |-> d]

\* A faulty render: `ctx or {}` without .copy() executes in the caller's
\* dict whenever that is non-empty.
ExecCtxShared(ctx) ==
    IF ctx.none \/ ctx.d = EmptyDict THEN "exec" ELSE "caller"

\* The dict object render executes in: (ctx or {}).copy() is a new object,
\* "exec", never the caller's, "caller".
ExecCtxRef(ctx) == "exec"

\* exec_ctx = (ctx or {}).copy(): the heap of the caller's dict and the copy.
CopyCtx(ctx) ==
    [caller |-> ctx.d, exec |-> IF ctx.none THEN EmptyDict ELSE ctx.d]

\* exec_ctx[OUTPUT_VAR] = output
BindOutput(heap, ref) ==
    [heap EXCEPT ![ref] = SetItem(heap[ref], OUTPUT_VAR, ListV(<<>>))]

\* return "".join(output), or the exception of exec: x is what Exec returned.
RenderResult(g, ref, heap, glob, x) ==
    [kind |-> x.kind,
     out  |-> IF x.kind = "ok" THEN Concat(x.locals[OUTPUT_VAR].l) ELSE <<>>,
     code |-> g.code, ran |-> g.ran, global_vars |-> glob,
     caller |-> [heap EXCEPT ![ref] = x.locals].caller]

\* exec(self._code, self._global_vars, exec_ctx): exec binds __builtins__ in
\* the globals it is given.
RenderExec(g, ref, heap, glob) ==
    RenderResult(g, ref, heap, glob, Exec(g.code.prog, glob, heap[ref]))

\* render after _generate_code ended as g.
RenderWith(tpl, ctx, g) ==
    IF g.kind # "ok"
    THEN [kind |-> g.kind, out |-> <<>>, code |-> g.code, ran |-> g.ran,
          global_vars |-> tpl.global_vars, caller |-> ctx.d]
    ELSE RenderExec(g, ExecCtxRef(ctx), BindOutput(CopyCtx(ctx), ExecCtxRef(ctx)),
                    SetItem(tpl.global_vars, BUILTINS_KEY, ModuleV))

\* Template.render: the outcome, the string returned, the template's code and
\* globals after the call, the caller's dict after the call.
RenderCall(tpl, ctx) == RenderWith(tpl, ctx, GenerateCode(tpl))

NoLast ==
    [t |-> "none", ctx |-> CtxArg(TRUE, EmptyDict), kind |-> "none", out |-> <<>>,
     ran |-> FALSE, cached |-> FALSE]

NoParse == [done |-> FALSE, body |-> <<>>, var |-> <<>>, filters |-> <<>>]

Init ==
    /\ filters = EmptyDict
    /\ templates = [t \in TemplateIds |-> NoTemplate]
    /\ compiles = [t \in TemplateIds |-> 0]
    /\ last = NoLast
    /\ callerCtx = EmptyDict
    /\ parsed = NoParse

\* TemplateEngine.register(name, filter_)
Register(name, fn) ==
    /\ filters' = SetItem(filters, name, FnV(fn))
    /\ UNCHANGED <<templates, compiles, last, callerCtx, parsed>>

\* t = TemplateEngine.create(source)
Create(t, text) ==
    /\ ~templates[t].created
    /\ templates' = [templates EXCEPT ![t] = NewTemplate(text, filters)]
    /\ UNCHANGED <<filters, compiles, last, callerCtx, parsed>>

\* The state after t.render(ctx) ended as r.
Rendered(t, ctx, r) ==
    /\ templates' = [templates EXCEPT ![t].code = r.code,
                                      ![t].global_vars = r.global_vars]
    /\ compiles' = [compiles EXCEPT ![t] = @ + (IF r.ran THEN 1 ELSE 0)]
    /\ last' = [t |-> t, ctx |-> ctx, kind |-> r.kind, out |-> r.out,
                ran |-> r.ran, cached |-> ~templates[t].code.isNone]
    /\ callerCtx' = r.caller

\* t.render(ctx), returning or raising.
Render(t, ctx) ==
    /\ templates[t].created
    /\ compiles[t] < MaxCompiles
    /\ Rendered(t, ctx, RenderCall(templates[t], ctx))
    /\ UNCHANGED <<filters, parsed>>

\* parse_expr(body), called on its own.
ParseExpr(body) ==
    /\ parsed' = [done |-> TRUE, body |-> body, var |-> parse_expr(body)[1],
                  filters |-> parse_expr(body)[2]]
    /\ UNCHANGED <<filters, templates, compiles, last, callerCtx>>

----------------------------------------------------------------------------
(* The inputs. *)

OpenE == <<"{", "{">>

CloseE == <<"}", "}">>

OpenS == <<"{", "%">>

CloseS == <<"%", "}">>

Bar == <<" ", "|", " ">>

\* "{{ x | strip | first }}"
TplPipe == OpenE \o <<" ", "x">> \o Bar \o FnStrip \o Bar \o FnFirst \o <<" ">> \o CloseE

\* "{% endfor %}"
TplEndFor == OpenS \o <<" ">> \o KwEndFor \o <<" ">> \o CloseS

\* "{% for v in xs %}b{{v}}"
TplForOpen ==
    OpenS \o <<" ">> \o KwFor \o <<" ", "v", " ", "i", "n", " ", "x", "s", " ">>
    \o CloseS \o <<"b">> \o OpenE \o <<"v">> \o CloseE

\* "{% for v in xs %}b{{v}}{% endfor %}"
TplFor == TplForOpen \o TplEndFor

\* "{{x"
TplUnclosed == OpenE \o <<"x">>

\* "a{{x}}{{y}}"
TplTwoVars == <<"a">> \o OpenE \o <<"x">> \o CloseE \o OpenE \o <<"y">> \o CloseE

\* "{{strip}}"
TplFilterName == OpenE \o FnStrip \o CloseE

\* "{% x %}"
TplBadKeyword == OpenS \o <<" ", "x", " ">> \o CloseS

\* "a{# c #} {{ x y }}"
TplBadExpr ==
    <<"a", "{", "#", " ", "c", " ", "#", "}", " ">> \o OpenE
    \o <<" ", "x", " ", "y", " ">> \o CloseE

Corpus == {TplPipe, TplEndFor, TplForOpen, TplFor, TplUnclosed, TplTwoVars,
           TplFilterName, TplBadKeyword, TplBadExpr}

RegInputs == {<<FnStrip, FnStrip>>, <<FnFirst, FnFirst>>}

ValX == StrV(<<" ", "a", "b">>)

CtxNone == CtxArg(TRUE, EmptyDict)

CtxEmpty == CtxArg(FALSE, EmptyDict)

CtxX == CtxArg(FALSE, [k \in {<<"x">>} |-> ValX])

CtxFull ==
    CtxArg(FALSE, [k \in {<<"x">>, <<"y">>, <<"x", "s">>} |->
                     IF k = <<"x">> THEN ValX
                     ELSE IF k = <<"y">> THEN StrV(<<"b">>)
                     ELSE ListV(<< <<"a">>, <<"b">> >>)])

Contexts == {CtxNone, CtxEmpty, CtxX, CtxFull}

\* One engine, one template of the corpus.
Next ==
    \/ \E r \in RegInputs : Register(r[1], r[2])
    \/ \E text \in Corpus : Create("t1", text)
    \/ \E ctx \in Contexts : Render("t1", ctx)

Spec == Init /\ [][Next]_vars

\* One engine, two templates created around its registrations.
SharedCorpus == {TplPipe, TplFilterName}

NextShared ==
    \/ \E r \in RegInputs : Register(r[1], r[2])
    \/ \E t \in TemplateIds, text \in SharedCorpus : Create(t, text)
    \/ \E t \in TemplateIds, ctx \in {CtxX} : Render(t, ctx)

SpecShared == Init /\ [][NextShared]_vars

\* Every short template text over an alphabet of literal, blank and marker
\* characters.
TextAlphabet == {"a", " ", "{", "}", "#"}

Texts(alphabet) == UNION {[1..n -> alphabet] : n \in 0..MaxTextLen}

CtxA == CtxArg(FALSE, [k \in {<<"a">>} |-> StrV(<<"b">>)])

NextText ==
    \/ \E text \in Texts(TextAlphabet) : Create("t1", text)
    \/ \E ctx \in {CtxNone, CtxEmpty, CtxA} : Render("t1", ctx)

SpecText == Init /\ [][NextText]_vars

\* Every short expression body.
BodyAlphabet == {"a", "b", " ", "|"}

NextParse == \E body \in Texts(BodyAlphabet) : ParseExpr(body)

SpecParse == Init /\ [][NextParse]_vars

----------------------------------------------------------------------------
(* What the claims speak of. *)

\* The template of the last render, and whether there was one.
HasRendered == last.t # "none"

LastText == templates[last.t].text

LastGlobals == templates[last.t].global_vars

\* The filter names a template resolves: its globals, less exec's own key.
VisibleFilters(t) == DOMAIN templates[t].global_vars \ {BUILTINS_KEY}

\* The Expr tokens of the last rendered template (none when tokenize raises).
LastExprs ==
    SelectSeq(tokenize(LastText).tokens, LAMBDA tok : tok.type = "Expr")

RECURSIVE InOrder(_, _, _)
\* f_n(...f_1(v)...): the filters applied in the order written.
InOrder(v, fs, globals) ==
    IF fs = <<>> THEN Ok(v)
    ELSE IF Head(fs) \notin DOMAIN globals THEN Raise("NameError")
    ELSE IF Apply(globals[Head(fs)], v).kind # "ok" THEN Apply(globals[Head(fs)], v)
    ELSE InOrder(Apply(globals[Head(fs)], v).v, Tail(fs), globals)

\* C1: the value emitted for  x | f_1 | ... | f_n  is f_n(...f_1(x)...), the
\* leftmost filter applied first: for a template that is one expression whose
\* variable is in the context and whose filters are all registered, render
\* ends as the filters applied in written order end.
C1_FilterOrder ==
    (/\ HasRendered
     /\ tokenize(LastText).kind = "ok"
     /\ Len(tokenize(LastText).tokens) = 1
     /\ Len(LastExprs) = 1
     /\ LastExprs[1].filters # <<>>
     /\ LastExprs[1].content \in DOMAIN last.ctx.d
     /\ \A i \in 1..Len(LastExprs[1].filters) :
            LastExprs[1].filters[i] \in VisibleFilters(last.t))
    => LET want == InOrder(last.ctx.d[LastExprs[1].content],
                           LastExprs[1].filters, LastGlobals)
       IN  /\ last.kind = want.kind
           /\ want.kind = "ok" => last.out = StrOf(want.v)

\* No "{{", "{#" or "{%" anywhere in the text.
NoOpenMarker(text) == \A i \in 1..Len(text) : ~OpensAt(text, i)

\* C2 as claimed: a template text without delimiter markers renders to
\* itself, whatever the context, blank texts included.
C2_RoundTrip ==
    (HasRendered /\ NoOpenMarker(LastText))
    => (last.kind = "ok" /\ last.out = LastText)

\* C2 as amended: a template text without opening markers renders to itself
\* when it has a non-blank character, and to the empty string when it is
\* empty or all whitespace, whatever the context.
C2_RoundTripNonBlank ==
    (HasRendered /\ NoOpenMarker(LastText))
    => /\ last.kind = "ok"
       /\ last.out = (IF Strip(LastText) = <<>> THEN <<>> ELSE LastText)

\* A render with a dict context returned a text that has leading or trailing
\* whitespace around a literal character, unchanged.
C2_Witness ==
    /\ HasRendered
    /\ ~last.ctx.none
    /\ NoOpenMarker(LastText)
    /\ Strip(LastText) # <<>>
    /\ Strip(LastText) # LastText
    /\ last.out = LastText

\* The keywords of the text's {% ... %} segments, in order.
ControlKeywords(text) ==
    LET segs == SelectSeq(Split(text),
                          LAMBDA g : StartsWith(g, OpenS) /\ EndsWith(g, CloseS))
    IN  [i \in 1..Len(segs) |-> Keyword(Strip(Inner(segs[i])))]

RECURSIVE Balanced(_, _)
\* Every endfor closes an open for, and no for is left open.
Balanced(ks, depth) ==
    IF ks = <<>> THEN depth = 0
    ELSE IF Head(ks) = KwFor THEN Balanced(Tail(ks), depth + 1)
    ELSE IF Head(ks) = KwEndFor THEN depth > 0 /\ Balanced(Tail(ks), depth - 1)
    ELSE Balanced(Tail(ks), depth)

\* The text has loop markers and no other control keyword.
OnlyLoops(text) ==
    /\ ControlKeywords(text) # <<>>
    /\ \A i \in 1..Len(ControlKeywords(text)) :
           ControlKeywords(text)[i] \in {KwFor, KwEndFor}

\* C3: a template whose for/endfor markers do not match (an endfor with no
\* open for, a for that is never closed) fails with a SyntaxError and returns
\* no string; one whose markers match does not raise that error.
C3_LoopStructure ==
    (HasRendered /\ OnlyLoops(LastText))
    => IF Balanced(ControlKeywords(LastText), 0)
       THEN last.kind # "SyntaxError"
       ELSE last.kind = "SyntaxError" /\ last.out = <<>>

RECURSIVE LoopOutput(_)
\* What "{% for v in xs %}b{{v}}{% endfor %}" is to emit over xs.
LoopOutput(xs) ==
    IF xs = <<>> THEN <<>> ELSE <<"b">> \o Head(xs) \o LoopOutput(Tail(xs))

\* C4: the body of a for block is rendered once per element of the iterable,
\* in order, with the loop variable bound to the element, and the outputs are
\* concatenated.
C4_LoopRenders ==
    (/\ HasRendered
     /\ LastText = TplFor
     /\ <<"x", "s">> \in DOMAIN last.ctx.d)
    => /\ last.kind = "ok"
       /\ last.out = LoopOutput(last.ctx.d[<<"x", "s">>].l)

\* An opening marker at i that no closing marker of its kind follows.
UnclosedAt(text, i) ==
    /\ OpensAt(text, i)
    /\ ~\E j \in (i + 2)..(Len(text) - 1) :
            text[j] = CloseChar(text[i + 1]) /\ text[j + 1] = "}"

\* C5: a template with an opening marker that is never closed raises a
\* SyntaxError; its text is not emitted as literal output.
C5_UnterminatedRaises ==
    (HasRendered /\ \E i \in 1..Len(LastText) : UnclosedAt(LastText, i))
    => last.kind = "SyntaxError"

\* C6 as claimed: over any sequence of renders of one Template, failed ones
\* included, the compilation pipeline runs at most once.
C6_CompiledAtMostOnce == \A t \in TemplateIds : compiles[t] <= 1

\* C6 as amended: once a render has compiled the template, no later render,
\* failed or not, runs the pipeline again or replaces the cached program
\* (a render whose compilation raises caches nothing, and the next one runs
\* the pipeline again).
C6_CachedProgramKept ==
    [][\A t \in TemplateIds :
          ~templates[t].code.isNone
          => /\ templates'[t].code = templates[t].code
             /\ compiles'[t] = compiles[t]]_vars

\* A render of an already compiled template failed at run time, having
\* reused the program: the pipeline has run once.
C6_Witness ==
    /\ HasRendered
    /\ last.cached
    /\ ~last.ran
    /\ last.kind = "NameError"
    /\ compiles[last.t] = 1

\* C7: after a render, returned or raised, the dict the caller passed has the
\* keys and bindings it had before the call.
C7_CallerContextUntouched == HasRendered => callerCtx = last.ctx.d

\* A render on a non-empty dict raised after it had accumulated output.
C7_Witness ==
    /\ HasRendered
    /\ last.kind = "NameError"
    /\ LastText = TplTwoVars
    /\ last.ctx = CtxX

\* The template compiled, and one of its expressions names a variable that
\* is not in the context or a filter that is not among the template's.
ReferencesMissingName ==
    /\ ~templates[last.t].code.isNone
    /\ \E i \in 1..Len(LastExprs) :
          \/ LastExprs[i].content \notin DOMAIN last.ctx.d
          \/ \E k \in 1..Len(LastExprs[i].filters) :
                LastExprs[i].filters[k] \notin VisibleFilters(last.t)

\* C8: a render that references a variable missing from the context, or a
\* filter missing from the registry, raises NameError and returns no string.
C8_MissingNameRaises ==
    (HasRendered /\ ReferencesMissingName)
    => (last.kind = "NameError" /\ last.out = <<>>)

\* Whether a render of template t resolves the name.
Resolves(t, name) == Lookup(name, templates[t].global_vars, EmptyDict).kind = "ok"

\* C9: any two templates created from one engine resolve the same filter
\* names when rendered, whether created before or after a registration.
C9_SharedRegistry ==
    \A t, u \in TemplateIds :
        (templates[t].created /\ templates[u].created)
        => \A r \in RegInputs : Resolves(t, r[1]) <=> Resolves(u, r[1])

\* The positions of "|" in a text, ascending.
BarPositions(text) ==
    SelectSeq([i \in 1..Len(text) |-> i], LAMBDA i : text[i] = "|")

\* The text between the k-th "|" of rest and the next one (or the end).
Piece(rest, k) ==
    SubSeq(rest, BarPositions(rest)[k] + 1,
           IF k < Len(BarPositions(rest)) THEN BarPositions(rest)[k + 1] - 1
           ELSE Len(rest))

\* rest is a run of "| <identifier>" suffixes naming fs, in order.
IsFilterRun(rest, fs) ==
    /\ rest # <<>> => rest[1] = "|"
    /\ Len(BarPositions(rest)) = Len(fs)
    /\ \A k \in 1..Len(fs) :
          /\ Strip(Piece(rest, k)) = fs[k]
          /\ fs[k] # <<>>
          /\ \A c \in 1..Len(fs[k]) : IsWord(fs[k][c])

\* C10: parse_expr returns the trailing "| <identifier>" suffixes of the body
\* in written order, and the prefix before them trimmed of leading and
\* trailing whitespace, with or without filters.
C10_ParseExpr ==
    parsed.done
    => \E k \in 0..Len(parsed.body) :
          /\ IsFilterRun(SubSeq(parsed.body, k + 1, Len(parsed.body)),
                         parsed.filters)
          /\ FilterSuffixStart(SubSeq(parsed.body, 1, k)) = 0
          /\ parsed.var = Strip(SubSeq(parsed.body, 1, k))

====
